---------------------------- MODULE Spec2Model ----------------------------
(***************************************************************************)
(* Model of the waypoint scripts of ai-flight-planner:                     *)
(*   src/web/export_waypoints_day3.py         (haversine_distance,         *)
(*       generate_waypoints, export_to_missionplanner, __main__)           *)
(*   src/web/export_waypoints_day3_backup.py  (haversine_distance,         *)
(*       export_waypoints)                                                 *)
(*                                                                         *)
(* Python floats are binary floating-point numbers rounded to nearest,     *)
(* ties to even, after every operation.  The model keeps that arithmetic   *)
(* and shortens the significand from 53 bits to Prec bits: a float is a    *)
(* pair <<m, e>> of value m * 2^e with m odd (or <<0, 0>>) and             *)
(* |m| < 2^Prec.  The exponent range is not bounded (no value of the       *)
(* model comes near the overflow or underflow of a double).                *)
(*                                                                         *)
(* Modelling assumption: the file system accepts open() and write(); the   *)
(* faults modelled are the ones the scripts' own arithmetic raises.        *)
(***************************************************************************)
EXTENDS Integers, Sequences, FiniteSets, TLC

(***************************************************************************)
(* Bounds of the model.                                                    *)
(***************************************************************************)
\* Significand width of the model's floats (53 in CPython).
Prec == 5
\* Longest waypoint list handed directly to an exporter.
MaxLen == 2
\* Largest point count int(distance // spacing) of the generator's inputs.
MaxPoints == 4

(***************************************************************************)
(* Integer helpers.                                                        *)
(***************************************************************************)
Abs(n) == IF n < 0 THEN -n ELSE n

Sign(n) == IF n < 0 THEN -1 ELSE IF n = 0 THEN 0 ELSE 1

Pow2(n) == 2 ^ n

Min(a, b) == IF a <= b THEN a ELSE b

\* Number of bits of n > 0 (0 for n = 0).
RECURSIVE BitLen(_)
BitLen(n) == IF n = 0 THEN 0 ELSE 1 + BitLen(n \div 2)

\* a / b rounded to the nearest integer, halves away from zero, b > 0.
DivRound(a, b) == Sign(a) * ((Abs(a) + b \div 2) \div b)

\* Largest r with r * r <= n, searched between lo and hi (lo*lo <= n < hi*hi).
RECURSIVE ISqrtIn(_, _, _)
ISqrtIn(n, lo, hi) ==
    IF hi - lo <= 1 THEN lo
    ELSE LET mid == (lo + hi) \div 2
         IN  IF mid * mid <= n THEN ISqrtIn(n, mid, hi) ELSE ISqrtIn(n, lo, mid)

ISqrt(n) == ISqrtIn(n, 0, Pow2((BitLen(n) + 1) \div 2 + 1))

(***************************************************************************)
(* Floating-point numbers <<m, e>> and their rounded operations.           *)
(***************************************************************************)
Zero == <<0, 0>>

RECURSIVE Norm(_, _)
Norm(m, e) ==
    IF m = 0 THEN Zero
    ELSE IF m % 2 = 0 THEN Norm(m \div 2, e + 1)
    ELSE <<m, e>>

\* The float nearest to the integer m times 2^e (ties to even).
RoundInt(m, e) ==
    LET a == Abs(m)
        s == BitLen(a) - Prec
    IN  IF s <= 0 THEN Norm(m, e)
        ELSE LET q    == a \div Pow2(s)
                 r    == a % Pow2(s)
                 half == Pow2(s - 1)
                 up   == r > half \/ (r = half /\ q % 2 = 1)
             IN  Norm(Sign(m) * (IF up THEN q + 1 ELSE q), e + s)

\* The float nearest to (n / d) * 2^e, d > 0: a quotient of Prec + 2 bits
\* or more, with a sticky bit for the remainder, is rounded once.
RoundRat(n, d, e) ==
    IF n = 0 THEN Zero
    ELSE LET a  == Abs(n)
             kk == Prec + 2 + BitLen(d) - BitLen(a)
             k  == IF kk > 0 THEN kk ELSE 0
             q  == (a * Pow2(k)) \div d
             st == IF (a * Pow2(k)) % d = 0 THEN 0 ELSE 1
         IN  RoundInt(Sign(n) * (2 * q + st), e - k - 1)

FromInt(n) == RoundInt(n, 0)

FNeg(x) == <<-x[1], x[2]>>

FAbs(x) == <<Abs(x[1]), x[2]>>

FAdd(x, y) ==
    IF x[1] = 0 THEN y
    ELSE IF y[1] = 0 THEN x
    ELSE IF x[2] - y[2] >= 2 * Prec + 2 THEN x
    ELSE IF y[2] - x[2] >= 2 * Prec + 2 THEN y
    ELSE LET e == Min(x[2], y[2])
         IN  RoundInt(x[1] * Pow2(x[2] - e) + y[1] * Pow2(y[2] - e), e)

FSub(x, y) == FAdd(x, FNeg(y))

FMul(x, y) == RoundInt(x[1] * y[1], x[2] + y[2])

\* x / y, y # 0.
FDiv(x, y) == RoundRat(x[1] * Sign(y[1]), Abs(y[1]), x[2] - y[2])

\* Exact comparison of two floats.
FLess(x, y) ==
    LET e == Min(x[2], y[2])
    IN  IF x[1] = 0 THEN y[1] > 0
        ELSE IF y[1] = 0 THEN x[1] < 0
        ELSE IF Sign(x[1]) # Sign(y[1]) THEN x[1] < y[1]
        ELSE IF x[2] - y[2] > 2 * Prec THEN x[1] < 0
        ELSE IF y[2] - x[2] > 2 * Prec THEN y[1] > 0
        ELSE x[1] * Pow2(x[2] - e) < y[1] * Pow2(y[2] - e)

\* The correctly rounded square root of x >= 0.
Sqrt(x) ==
    IF x[1] = 0 THEN Zero
    ELSE LET t0 == 2 * (Prec + 2) - BitLen(x[1])
             t1 == IF t0 > 0 THEN t0 ELSE 0
             t  == IF (x[2] - t1) % 2 = 0 THEN t1 ELSE t1 + 1
             mm == x[1] * Pow2(t)
             r  == ISqrt(mm)
             st == IF r * r = mm THEN 0 ELSE 1
         IN  RoundInt(2 * r + st, (x[2] - t) \div 2 - 1)

(***************************************************************************)
(* The C library's functions (math.radians, math.sin, math.cos,            *)
(* math.atan2, math.asin).  Each is evaluated in fixed point with 14       *)
(* fractional bits and its result rounded to a float.  Sin is odd and Cos  *)
(* even by construction, as in the library.                                *)
(***************************************************************************)
FxOne == Pow2(14)

\* A float x >= 0 as a multiple of 1 / FxOne.
ToFx(x) ==
    IF x[2] + 14 >= 0 THEN x[1] * Pow2(x[2] + 14)
    ELSE IF -(x[2] + 14) > 30 THEN 0
    ELSE DivRound(x[1], Pow2(-(x[2] + 14)))

FromFx(v) == RoundInt(v, -14)

\* acc + t - t*v2/(k(k+1)) + t*v2^2/(k(k+1)(k+2)(k+3)) - ... in fixed point.
RECURSIVE SeriesFx(_, _, _, _)
SeriesFx(t, v2, k, acc) ==
    IF t = 0 THEN acc
    ELSE SeriesFx(-DivRound(DivRound(t * v2, FxOne), k * (k + 1)), v2, k + 2, acc + t)

SinFx(v) == SeriesFx(v, DivRound(v * v, FxOne), 2, 0)

CosFx(v) == SeriesFx(FxOne, DivRound(v * v, FxOne), 1, 0)

\* The largest angle th in lo..hi-1 (fixed point) with tan(th) <= yf / xf,
\* that is sin(th) * xf <= cos(th) * yf, which holds at lo.
RECURSIVE BisectAtan(_, _, _, _)
BisectAtan(yf, xf, lo, hi) ==
    IF hi - lo <= 1 THEN lo
    ELSE LET mid == (lo + hi) \div 2
         IN  IF SinFx(mid) * xf <= CosFx(mid) * yf
             THEN BisectAtan(yf, xf, mid, hi)
             ELSE BisectAtan(yf, xf, lo, mid)

\* The largest angle th in lo..hi-1 (fixed point) with sin(th) <= sf.
RECURSIVE BisectAsin(_, _, _)
BisectAsin(sf, lo, hi) ==
    IF hi - lo <= 1 THEN lo
    ELSE LET mid == (lo + hi) \div 2
         IN  IF SinFx(mid) <= sf THEN BisectAsin(sf, mid, hi) ELSE BisectAsin(sf, lo, mid)

\* math.radians(x): x * (pi / 180).
Radians(x) == FMul(x, RoundInt(18740330, -30))

Sin(x) ==
    IF x[1] < 0 THEN FNeg(FromFx(SinFx(ToFx(FNeg(x)))))
    ELSE FromFx(SinFx(ToFx(x)))

Cos(x) == FromFx(CosFx(ToFx(FAbs(x))))

\* math.atan2(y, x) for y >= 0, x >= 0, not both 0: the angle in
\* [0, pi/2] whose tangent is y / x (pi/2 is 25736 / 2^14).
Atan2(y, x) == FromFx(BisectAtan(ToFx(y), ToFx(x), 0, 25736 + 1))

\* math.asin(s) for 0 <= s <= 1.
Asin(s) == FromFx(BisectAsin(ToFx(s), 0, 25736 + 1))

(***************************************************************************)
(* haversine_distance, in the two scripts' formulations.  The arguments    *)
(* and the result are floats; R is the Python int 6371000.                 *)
(***************************************************************************)
R == 6371000

\* Mutant: the latitudes added instead of subtracted.
HaversineA_sum(lat1, lon1, lat2, lon2) ==
    LET phi1    == Radians(lat1)
        phi2    == Radians(lat2)
        dphi    == Radians(FAdd(lat2, lat1))
        dlambda == Radians(FSub(lon2, lon1))
        sdphi   == Sin(FDiv(dphi, FromInt(2)))
        sdlam   == Sin(FDiv(dlambda, FromInt(2)))
    IN  FAdd(FMul(sdphi, sdphi),
             FMul(FMul(Cos(phi1), Cos(phi2)), FMul(sdlam, sdlam)))

\* Mutant: lat1 written for lon1 in the longitude difference.
HaversineA_lat_for_lon(lat1, lon1, lat2, lon2) ==
    LET phi1    == Radians(lat1)
        phi2    == Radians(lat2)
        dphi    == Radians(FSub(lat2, lat1))
        dlambda == Radians(FSub(lon2, lat1))
        sdphi   == Sin(FDiv(dphi, FromInt(2)))
        sdlam   == Sin(FDiv(dlambda, FromInt(2)))
    IN  FAdd(FMul(sdphi, sdphi),
             FMul(FMul(Cos(phi1), Cos(phi2)), FMul(sdlam, sdlam)))

\* a of the haversine formula (line 9; lines 8-9 of the backup script).
\* It lies in [0, 1] for the inputs of the model, so that the square
\* roots and the arc sine taken of it are defined.
HaversineA(lat1, lon1, lat2, lon2) ==
    LET phi1    == Radians(lat1)
        phi2    == Radians(lat2)
        dphi    == Radians(FSub(lat2, lat1))
        dlambda == Radians(FSub(lon2, lon1))
        sdphi   == Sin(FDiv(dphi, FromInt(2)))
        sdlam   == Sin(FDiv(dlambda, FromInt(2)))
    IN  FAdd(FMul(sdphi, sdphi),
             FMul(FMul(Cos(phi1), Cos(phi2)), FMul(sdlam, sdlam)))

\* export_waypoints_day3.py: R * (2 * atan2(sqrt(a), sqrt(1 - a))).
haversine_distance(lat1, lon1, lat2, lon2) ==
    LET a == HaversineA(lat1, lon1, lat2, lon2)
    IN  FMul(FromInt(R),
             FMul(FromInt(2), Atan2(Sqrt(a), Sqrt(FSub(FromInt(1), a)))))

\* export_waypoints_day3_backup.py: 2 * R * asin(sqrt(a)).
haversine_distance_backup(lat1, lon1, lat2, lon2) ==
    LET a == HaversineA(lat1, lon1, lat2, lon2)
    IN  FMul(FromInt(2 * R), Asin(Sqrt(a)))

(***************************************************************************)
(* Text: a string is a sequence of one-character strings.                  *)
(***************************************************************************)
Digit(d) == <<"0", "1", "2", "3", "4", "5", "6", "7", "8", "9">>[d + 1]

RECURSIVE NatStr(_)
NatStr(n) == IF n < 10 THEN <<Digit(n)>> ELSE NatStr(n \div 10) \o <<Digit(n % 10)>>

\* str(n) of a Python int, as an f-string field renders it.
IntStr(n) == IF n < 0 THEN <<"-">> \o NatStr(-n) ELSE NatStr(n)

\* The d digits of n < 10^d, zero-padded on the left.
RECURSIVE Padded(_, _)
Padded(n, d) == IF d = 0 THEN <<>> ELSE Padded(n \div 10, d - 1) \o <<Digit(n % 10)>>

\* repr(x) of a Python float, as an f-string field renders it: the shortest
\* decimal that reads back as x, which for a value of few significant bits
\* and 1e-4 <= |x| < 1e16 is its exact decimal expansion, with ".0" when x is
\* whole.  m * 2^-d = (m * 5^d) / 10^d has d decimals.
FloatRepr(x) ==
    LET sg == IF x[1] < 0 THEN <<"-">> ELSE <<>>
        a  == Abs(x[1])
    IN  IF x[2] >= 0 THEN sg \o NatStr(a * Pow2(x[2])) \o <<".", "0">>
        ELSE LET d  == -x[2]
                 dd == a * (5 ^ d)
             IN  sg \o NatStr(dd \div (10 ^ d)) \o <<".">> \o Padded(dd % (10 ^ d), d)

\* "QGC WPL 110\n"
Header == <<"Q", "G", "C", " ", "W", "P", "L", " ", "1", "1", "0", "\n">>

\* Mutant: lon written before lat.
FormatLine_lon_first(i, wp) ==
    IntStr(i)
      \o <<"\t", "0", "\t", "3", "\t", "1", "6", "\t", "0", "\t", "0", "\t", "0", "\t", "0", "\t">>
      \o FloatRepr(wp[2]) \o <<"\t">> \o FloatRepr(wp[1]) \o <<"\t">> \o IntStr(wp[3])
      \o <<"\t", "1", "\n">>

\* f"{i}\t0\t3\t16\t0\t0\t0\t0\t{lat}\t{lon}\t{alt}\t1\n" for wp = (lat, lon, alt)
FormatLine(i, wp) ==
    IntStr(i)
      \o <<"\t", "0", "\t", "3", "\t", "1", "6", "\t", "0", "\t", "0", "\t", "0", "\t", "0", "\t">>
      \o FloatRepr(wp[1]) \o <<"\t">> \o FloatRepr(wp[2]) \o <<"\t">> \o IntStr(wp[3])
      \o <<"\t", "1", "\n">>

\* Mutant: the last waypoint is not written.
RECURSIVE WriteLines_skip_last(_, _)
WriteLines_skip_last(wps, i) ==
    IF i >= Len(wps) - 1 THEN <<>>
    ELSE FormatLine(i, wps[i + 1]) \o WriteLines_skip_last(wps, i + 1)

\* The writes of "for i, (lat, lon, alt) in enumerate(waypoints)", from
\* index i on, in order.
RECURSIVE WriteLines(_, _)
WriteLines(wps, i) ==
    IF i >= Len(wps) THEN <<>>
    ELSE FormatLine(i, wps[i + 1]) \o WriteLines(wps, i + 1)

(***************************************************************************)
(* Inputs.                                                                 *)
(***************************************************************************)
\* Degrees given in halves: k stands for k / 2 degrees.
HalfDeg(k) == RoundInt(k, -1)

Coords == {<<HalfDeg(la), HalfDeg(lo)>> : la \in {-34, 0, 1, 120}, lo \in {-240, 0, 34}}

\* Spacings in metres: 2^15, 2^21, 2^23, and the unvalidated 0 and -2^21.
Spacings == {<<1, 15>>, <<1, 21>>, <<1, 23>>, Zero, <<-1, 21>>}

\* Waypoints (lat, lon, alt) of the lists handed directly to an exporter
\* (the backup script's own list has float coordinates and the int 50).
WaypointChoices ==
    { <<HalfDeg(70), HalfDeg(254), 50>>,
      <<HalfDeg(-1), HalfDeg(3), 100>>,
      <<RoundInt(-21, -3), Zero, -7>> }

WaypointLists == UNION {[1..n -> WaypointChoices] : n \in 0..MaxLen}

Absent == "absent"

OldFile == <<"o", "l", "d", "\n">>

Filenames == {"mission_day3.waypoints", "mission.waypoints"}

\* Mutant: the quotient rounded to the nearest integer instead of floored.
FloorDiv_nearest(x, y) ==
    LET e == Min(x[2], y[2])
        n == x[1] * Pow2(x[2] - e)
        d == y[1] * Pow2(y[2] - e)
    IN  IF x[1] = 0 THEN 0
        ELSE IF d > 0 THEN (2 * n + d) \div (2 * d) ELSE (-2 * n - d) \div (-2 * d)

\* floor(x / y) of two floats, y # 0, as an integer: int(x // y).
FloorDiv(x, y) ==
    LET e == Min(x[2], y[2])
        n == x[1] * Pow2(x[2] - e)
        d == y[1] * Pow2(y[2] - e)
    IN  IF x[1] = 0 THEN 0
        ELSE IF d > 0 THEN n \div d ELSE (-n) \div (-d)

(***************************************************************************)
(* State.                                                                  *)
(***************************************************************************)
VARIABLES
    entry,       \* what is run: "main" (the day-3 script's pipeline), a direct
                 \* call of "export_to_missionplanner" or "export_waypoints",
                 \* or calls of "haversine_distance"
    pc,          \* control position
    start, end,  \* (lat, lon) pairs
    spacing,
    distance,    \* generate_waypoints' local
    num_points,  \* generate_waypoints' local
    i,           \* generate_waypoints' loop variable: the next value of range()
    waypoints,   \* the list being built, then the list exported
    fs,          \* file name -> Absent or the file's characters
    stdout,      \* what print() wrote
    exportCalls, \* number of exporter invocations
    fault,       \* <<>> or <<exception, line>> of the uncaught exception
    hav          \* results of the haversine_distance calls made

vars == <<entry, pc, start, end, spacing, distance, num_points, i, waypoints,
          fs, stdout, exportCalls, fault, hav>>

\* The point count of generate_waypoints for an input (spacing # 0).
PointCount(s, e, sp) == FloorDiv(haversine_distance(s[1], s[2], e[1], e[2]), sp)

Init ==
    /\ entry \in {"main", "export_to_missionplanner", "export_waypoints", "haversine_distance"}
    /\ fs \in [Filenames -> {Absent, OldFile}]
    /\ entry = "haversine_distance" => fs = [n \in Filenames |-> Absent]
    /\ stdout = <<>>
    /\ exportCalls = 0
    /\ fault = <<>>
    /\ hav = <<>>
    /\ distance = Zero
    /\ num_points = 0
    /\ i = 0
    /\ \/ /\ entry = "main"
          /\ pc = "generate_waypoints"
          /\ start \in Coords
          /\ end \in Coords
          /\ spacing \in Spacings
          /\ spacing # Zero => PointCount(start, end, spacing) <= MaxPoints
          /\ waypoints = <<>>
       \/ /\ entry \in {"export_to_missionplanner", "export_waypoints"}
          /\ pc = entry
          /\ start = <<Zero, Zero>>
          /\ end = <<Zero, Zero>>
          /\ spacing = Zero
          /\ waypoints \in WaypointLists
       \/ /\ entry = "haversine_distance"
          /\ pc = "haversine_distance"
          /\ start \in Coords
          /\ end \in Coords
          /\ spacing = Zero
          /\ waypoints = <<>>

(***************************************************************************)
(* generate_waypoints(start, end, spacing)                                 *)
(***************************************************************************)
\* Lines 13-18: the distance, the point count, the empty list.  A spacing
\* of 0 raises ZeroDivisionError in distance // spacing.
generate_waypoints_enter ==
    /\ pc = "generate_waypoints"
    /\ distance' = haversine_distance(start[1], start[2], end[1], end[2])
    /\ IF spacing = Zero
       THEN /\ pc' = "fault"
            /\ fault' = <<"ZeroDivisionError", 16>>
            /\ UNCHANGED num_points
       ELSE /\ pc' = "loop"
            /\ num_points' = FloorDiv(distance', spacing)
            /\ UNCHANGED fault
    /\ i' = 0
    /\ waypoints' = <<>>
    /\ UNCHANGED <<entry, start, end, spacing, fs, stdout, exportCalls, hav>>

\* Mutant: integer division (i // num_points).
TrueDiv_floor(a, b) == FromInt(a \div b)

\* a / b of two Python ints, b # 0: the correctly rounded quotient.
TrueDiv(a, b) == RoundRat(a * Sign(b), Abs(b), 0)

\* Mutant: the fraction taken one iteration ahead.
Waypoint_from_one(k) ==
    LET f   == TrueDiv(k + 1, num_points)
        lat == FAdd(start[1], FMul(FSub(end[1], start[1]), f))
        lon == FAdd(start[2], FMul(FSub(end[2], start[2]), f))
    IN  <<lat, lon, 100>>

\* The waypoint appended by iteration k (lines 20-23), num_points # 0.
Waypoint(k) ==
    LET f   == TrueDiv(k, num_points)
        lat == FAdd(start[1], FMul(FSub(end[1], start[1]), f))
        lon == FAdd(start[2], FMul(FSub(end[2], start[2]), f))
    IN  <<lat, lon, 100>>

\* Mutant: the division by zero is swallowed and the list built so far
\* is returned.
generate_waypoints_iter_swallow ==
    /\ pc = "loop"
    /\ i < num_points + 1
    /\ IF num_points = 0
       THEN /\ pc' = "export_to_missionplanner"
            /\ UNCHANGED <<waypoints, i, fault>>
       ELSE /\ waypoints' = Append(waypoints, Waypoint(i))
            /\ i' = i + 1
            /\ UNCHANGED <<pc, fault>>
    /\ UNCHANGED <<entry, start, end, spacing, distance, num_points, fs, stdout,
                   exportCalls, hav>>

\* Lines 19-23: one iteration of "for i in range(num_points + 1)".
\* i / num_points raises ZeroDivisionError when num_points = 0.
generate_waypoints_iter ==
    /\ pc = "loop"
    /\ i < num_points + 1
    /\ IF num_points = 0
       THEN /\ pc' = "fault"
            /\ fault' = <<"ZeroDivisionError", 20>>
            /\ UNCHANGED <<waypoints, i>>
       ELSE /\ waypoints' = Append(waypoints, Waypoint(i))
            /\ i' = i + 1
            /\ UNCHANGED <<pc, fault>>
    /\ UNCHANGED <<entry, start, end, spacing, distance, num_points, fs, stdout,
                   exportCalls, hav>>

\* Mutant: the loop may end one iteration early (range(num_points)).
generate_waypoints_return_early ==
    /\ pc = "loop"
    /\ ~(i < num_points)
    /\ pc' = "export_to_missionplanner"
    /\ UNCHANGED <<entry, start, end, spacing, distance, num_points, i, waypoints,
                   fs, stdout, exportCalls, fault, hav>>

\* Line 24, and line 37 of __main__ reached with the returned list.
generate_waypoints_return ==
    /\ pc = "loop"
    /\ ~(i < num_points + 1)
    /\ pc' = "export_to_missionplanner"
    /\ UNCHANGED <<entry, start, end, spacing, distance, num_points, i, waypoints,
                   fs, stdout, exportCalls, fault, hav>>

(***************************************************************************)
(* The exporters.  open(filename, "w") creates or truncates the file.      *)
(***************************************************************************)
\* Mutant: the header is written by the loop's first iteration.
export_to_missionplanner_header_in_loop ==
    /\ pc = "export_to_missionplanner"
    /\ fs' = [fs EXCEPT !["mission_day3.waypoints"] =
                IF waypoints = <<>> THEN <<>> ELSE Header \o WriteLines(waypoints, 0)]
    /\ stdout' = Append(stdout, <<"Saved", Len(waypoints), "mission_day3.waypoints">>)
    /\ exportCalls' = exportCalls + 1
    /\ pc' = "done"
    /\ UNCHANGED <<entry, start, end, spacing, distance, num_points, i, waypoints,
                   fault, hav>>

\* export_waypoints_day3.py, lines 26-31.
export_to_missionplanner ==
    /\ pc = "export_to_missionplanner"
    /\ fs' = [fs EXCEPT !["mission_day3.waypoints"] = Header \o WriteLines(waypoints, 0)]
    /\ stdout' = Append(stdout, <<"Saved", Len(waypoints), "mission_day3.waypoints">>)
    /\ exportCalls' = exportCalls + 1
    /\ pc' = "done"
    /\ UNCHANGED <<entry, start, end, spacing, distance, num_points, i, waypoints,
                   fault, hav>>

\* export_waypoints_day3_backup.py, lines 12-18.
export_waypoints ==
    /\ pc = "export_waypoints"
    /\ fs' = [fs EXCEPT !["mission.waypoints"] = Header \o WriteLines(waypoints, 0)]
    /\ stdout' = Append(stdout, <<"Exported", Len(waypoints), "mission.waypoints">>)
    /\ exportCalls' = exportCalls + 1
    /\ pc' = "done"
    /\ UNCHANGED <<entry, start, end, spacing, distance, num_points, i, waypoints,
                   fault, hav>>

(***************************************************************************)
(* Calls of the two haversine_distance functions on (start, end) and on    *)
(* (end, start).                                                           *)
(***************************************************************************)
Args(order) == IF order = "ab" THEN <<start, end>> ELSE <<end, start>>

call_haversine_distance(order) ==
    /\ pc = "haversine_distance"
    /\ <<"day3", order>> \notin DOMAIN hav
    /\ LET p == Args(order)
       IN  hav' = hav @@ (<<"day3", order>> :>
                            haversine_distance(p[1][1], p[1][2], p[2][1], p[2][2]))
    /\ UNCHANGED <<entry, pc, start, end, spacing, distance, num_points, i,
                   waypoints, fs, stdout, exportCalls, fault>>

call_haversine_distance_backup(order) ==
    /\ pc = "haversine_distance"
    /\ <<"backup", order>> \notin DOMAIN hav
    /\ LET p == Args(order)
       IN  hav' = hav @@ (<<"backup", order>> :>
                            haversine_distance_backup(p[1][1], p[1][2], p[2][1], p[2][2]))
    /\ UNCHANGED <<entry, pc, start, end, spacing, distance, num_points, i,
                   waypoints, fs, stdout, exportCalls, fault>>

Next ==
    \/ generate_waypoints_enter
    \/ generate_waypoints_iter
    \/ generate_waypoints_return
    \/ export_to_missionplanner
    \/ export_waypoints
    \/ \E order \in {"ab", "ba"} : call_haversine_distance(order)
    \/ \E order \in {"ab", "ba"} : call_haversine_distance_backup(order)

Spec == Init /\ [][Next]_vars

(***************************************************************************)
(* Helpers of the properties: exact arithmetic on the values of floats,    *)
(* and the reading of the written text.                                    *)
(***************************************************************************)
Returned == pc \in {"export_to_missionplanner", "done"}

MainAfterEnter == entry = "main" /\ pc # "generate_waypoints"

\* x as an exact multiple of 2^e, for e at most x's exponent.
Units(x, e) == x[1] * Pow2(x[2] - e)

MinExp(xs) == CHOOSE e \in {x[2] : x \in xs} : \A x \in xs : e <= x[2]

\* n * y <= x exactly, for an integer n and floats x, y.
TimesLeq(n, y, x) ==
    LET e == MinExp({x, y}) IN n * Units(y, e) <= Units(x, e)

\* |r - b| <= c * 2^-Prec * (|a| + |b|), exactly.
Within(r, b, a, c) ==
    LET e == MinExp({r, a, b})
    IN  Abs(Units(r, e) - Units(b, e)) * Pow2(Prec)
            <= c * (Abs(Units(a, e)) + Abs(Units(b, e)))

\* Whether n * r = n * a + k * (b - a) exactly: r is the point k / n of the
\* way from a to b.
ExactBlend(r, a, b, k, n) ==
    LET e == MinExp({r, a, b})
    IN  n * Units(r, e) = n * Units(a, e) + k * (Units(b, e) - Units(a, e))

\* |r - (a + (b - a) * k / n)| <= c * 2^-Prec * (|a| + |b|), exactly.
BlendWithin(r, a, b, k, n, c) ==
    LET e == MinExp({r, a, b})
    IN  Abs(n * Units(r, e) - (n * Units(a, e) + k * (Units(b, e) - Units(a, e))))
            * Pow2(Prec)
            <= c * n * (Abs(Units(a, e)) + Abs(Units(b, e)))

\* The positions of sep in text, and the j-th of them in increasing order.
SepAt(text, sep) == {k \in 1..Len(text) : text[k] = sep}

NthSep(text, sep, j) ==
    IF j = 0 THEN 0
    ELSE CHOOSE p \in SepAt(text, sep) :
            Cardinality({q \in SepAt(text, sep) : q <= p}) = j

\* The pieces of text that end with sep, in order (what follows the last
\* sep is dropped: Unterminated tells whether a file has any).
Pieces(text, sep) ==
    [j \in 1..Cardinality(SepAt(text, sep)) |->
        SubSeq(text, NthSep(text, sep, j - 1) + 1, NthSep(text, sep, j) - 1)]

Lines(text) == Pieces(text, "\n")

Unterminated(text) == text # <<>> /\ text[Len(text)] # "\n"

\* The tab-separated fields of a line.
Fields(line) == Pieces(Append(line, "\t"), "\t")

DigitValue(c) == CHOOSE d \in 0..9 : Digit(d) = c

IsDigits(str) == str # <<>> /\ \A k \in 1..Len(str) : \E d \in 0..9 : Digit(d) = str[k]

RECURSIVE DigitsValue(_)
DigitsValue(str) ==
    IF str = <<>> THEN 0
    ELSE 10 * DigitsValue(SubSeq(str, 1, Len(str) - 1)) + DigitValue(str[Len(str)])

Unsigned(str) == IF str # <<>> /\ Head(str) = "-" THEN Tail(str) ELSE str

\* Whether str is the decimal numeral of the integer n.
ReadsAsInt(str, n) ==
    /\ IsDigits(Unsigned(str))
    /\ (Head(str) = "-") = (n < 0)
    /\ DigitsValue(Unsigned(str)) = Abs(n)

\* Whether str is a decimal "digits.digits" whose value is exactly x:
\* whole.frac / 10^d = m * 2^e.
ReadsAsFloat(str, x) ==
    LET u     == Unsigned(str)
        parts == Pieces(Append(u, "."), ".")
    IN  /\ Len(parts) = 2
        /\ IsDigits(parts[1])
        /\ IsDigits(parts[2])
        /\ (str # <<>> /\ Head(str) = "-") = (x[1] < 0)
        /\ LET d   == Len(parts[2])
               num == DigitsValue(parts[1]) * (10 ^ d) + DigitsValue(parts[2])
               a   == Abs(x[1])
           IN  IF x[2] >= 0 THEN num = a * Pow2(x[2]) * (10 ^ d)
               ELSE d >= -x[2] /\ num = a * (5 ^ (-x[2])) * (10 ^ (d + x[2]))

\* The file the run's exporter writes.
OutputName == IF entry = "export_waypoints" THEN "mission.waypoints" ELSE "mission_day3.waypoints"

Output == fs[OutputName]

(***************************************************************************)
(* C1.  For every start, end and spacing > 0 with distance(start, end) >=  *)
(* spacing, generate_waypoints returns (it raises nothing) a list of       *)
(* exactly floor(distance / spacing) + 1 waypoints: the length minus one   *)
(* is the integer n with n * spacing <= distance < (n + 1) * spacing.      *)
(***************************************************************************)
C1_PointCount ==
    (MainAfterEnter /\ spacing[1] > 0 /\ ~FLess(distance, spacing))
        => /\ pc # "fault"
           /\ Returned =>
                LET n == Len(waypoints) - 1
                IN  /\ n >= 1
                    /\ TimesLeq(n, spacing, distance)
                    /\ ~TimesLeq(n + 1, spacing, distance)

C1_Witness ==
    /\ entry = "main" /\ pc = "done" /\ spacing[1] > 0
    /\ ~FLess(distance, spacing)
    /\ Len(waypoints) = 4

(***************************************************************************)
(* C3.  If distance(start, end) < spacing (start = end included), the      *)
(* point count is 0, the first loop iteration raises ZeroDivisionError     *)
(* (line 20), nothing catches it, and no list is returned: the loop cannot *)
(* exit normally, nothing is appended, and the fault ends the run.         *)
(***************************************************************************)
C3_ShortDistanceFaults ==
    (MainAfterEnter /\ FLess(distance, spacing))
        => /\ num_points = 0
           /\ waypoints = <<>> /\ i = 0
           /\ exportCalls = 0
           /\ pc \in {"loop", "fault"}
           /\ pc = "loop" => (ENABLED generate_waypoints_iter
                              /\ ~ENABLED generate_waypoints_return)
           /\ pc = "fault" => (fault = <<"ZeroDivisionError", 20>> /\ ~ENABLED Next)

C3_Witness ==
    /\ entry = "main" /\ pc = "fault" /\ start # end
    /\ FLess(distance, spacing) /\ FLess(Zero, distance)
    /\ fault = <<"ZeroDivisionError", 20>>

(***************************************************************************)
(* C2, as stated.  Whenever generate_waypoints returns a list, the         *)
(* latitude and longitude of its first waypoint equal the start coordinate *)
(* and those of its last waypoint equal the end coordinate.  (An empty     *)
(* list, which has no waypoint, is left aside here.)                       *)
(***************************************************************************)
C2_EndpointsExact ==
    (entry = "main" /\ Returned /\ waypoints # <<>>)
        => /\ <<waypoints[1][1], waypoints[1][2]>> = start
           /\ <<waypoints[Len(waypoints)][1], waypoints[Len(waypoints)][2]>> = end

(***************************************************************************)
(* C2, amended.  Whenever generate_waypoints returns a non-empty list, its *)
(* first waypoint's latitude and longitude equal the start coordinate      *)
(* exactly, and its last waypoint's equal the end coordinate within        *)
(* floating-point rounding: lat1 + (lat2 - lat1) * 1.0 is rounded twice,   *)
(* so each differs from the end's by at most                               *)
(* 3 * 2^-Prec * (|start's| + |end's|).                                    *)
(***************************************************************************)
C2_EndpointsWithinRounding ==
    (entry = "main" /\ Returned /\ waypoints # <<>>)
        => LET first == waypoints[1]
               last  == waypoints[Len(waypoints)]
           IN  /\ <<first[1], first[2]>> = start
               /\ Within(last[1], end[1], start[1], 3)
               /\ Within(last[2], end[2], start[2], 3)

\* A returned list whose last latitude is not the end's.
C2_Witness ==
    /\ entry = "main" /\ Returned /\ waypoints # <<>>
    /\ waypoints[Len(waypoints)][1] # end[1]
    /\ waypoints[1][1] = start[1]

(***************************************************************************)
(* C9, as stated.  When generate_waypoints returns with point count        *)
(* n >= 1, for every i in 0..n the i-th waypoint is                        *)
(* (lat1 + (lat2 - lat1) * i / n, lon1 + (lon2 - lon1) * i / n, 100), so   *)
(* that consecutive waypoints differ by the same step.                     *)
(***************************************************************************)
C9_InterpolationExact ==
    (entry = "main" /\ Returned /\ num_points >= 1)
        => /\ Len(waypoints) = num_points + 1
           /\ \A k \in 0..num_points :
                /\ ExactBlend(waypoints[k + 1][1], start[1], end[1], k, num_points)
                /\ ExactBlend(waypoints[k + 1][2], start[2], end[2], k, num_points)
                /\ waypoints[k + 1][3] = 100

(***************************************************************************)
(* C9, amended.  When generate_waypoints returns with point count n >= 1,  *)
(* the list has n + 1 waypoints in increasing i, every altitude is 100,    *)
(* and the i-th latitude (longitude) is the floating-point value of        *)
(* lat1 + (lat2 - lat1) * (i / n): it equals the exact interpolation       *)
(* within rounding, at most 5 * 2^-Prec * (|lat1| + |lat2|) away, so the   *)
(* steps between consecutive waypoints are equal only up to rounding.      *)
(***************************************************************************)
C9_InterpolationWithinRounding ==
    (entry = "main" /\ Returned /\ num_points >= 1)
        => /\ Len(waypoints) = num_points + 1
           /\ \A k \in 0..num_points :
                /\ BlendWithin(waypoints[k + 1][1], start[1], end[1], k, num_points, 5)
                /\ BlendWithin(waypoints[k + 1][2], start[2], end[2], k, num_points, 5)
                /\ waypoints[k + 1][3] = 100

\* A returned list of three waypoints or more with an inexact middle one.
C9_Witness ==
    /\ entry = "main" /\ Returned /\ num_points >= 2
    /\ ~ExactBlend(waypoints[2][1], start[1], end[1], 1, num_points)

(***************************************************************************)
(* C4.  For every waypoint list of length N >= 0, a completed export       *)
(* (export_to_missionplanner or export_waypoints) leaves a file of exactly *)
(* N + 1 lines: the header line first, then one line per waypoint.         *)
(***************************************************************************)
C4_LineCount ==
    pc = "done"
        => /\ Output # Absent
           /\ ~Unterminated(Output)
           /\ Len(Lines(Output)) = Len(waypoints) + 1
           /\ Lines(Output)[1] = <<"Q", "G", "C", " ", "W", "P", "L", " ", "1", "1", "0">>
           /\ \A k \in 2..Len(Lines(Output)) : Lines(Output)[k] # Lines(Output)[1]

C4_Witness ==
    /\ pc = "done" /\ entry = "export_waypoints"
    /\ Len(waypoints) = 2
    /\ Len(Lines(Output)) = 3

(***************************************************************************)
(* C5.  In the exported file the first line is the literal "QGC WPL 110"   *)
(* and, for every k in 0..N-1, line k+1 is a record of 12 tab-separated    *)
(* fields: the index k; the constants 0, 3, 16, 0, 0, 0, 0; the lat, lon   *)
(* and alt of the k-th waypoint of the input list (the decimal texts read  *)
(* back as exactly those values); and 1.                                   *)
(***************************************************************************)
C5_RecordFormat ==
    pc = "done"
        => /\ Output # Absent
           /\ Len(Lines(Output)) >= 1
           /\ Lines(Output)[1] = <<"Q", "G", "C", " ", "W", "P", "L", " ", "1", "1", "0">>
           /\ \A k \in 0..(Len(waypoints) - 1) :
                /\ k + 2 <= Len(Lines(Output))
                /\ LET fld == Fields(Lines(Output)[k + 2])
                       wp  == waypoints[k + 1]
                   IN  /\ Len(fld) = 12
                       /\ ReadsAsInt(fld[1], k)
                       /\ <<fld[2], fld[3], fld[4], fld[5], fld[6], fld[7], fld[8]>>
                            = <<<<"0">>, <<"3">>, <<"1", "6">>, <<"0">>,
                                <<"0">>, <<"0">>, <<"0">>>>
                       /\ ReadsAsFloat(fld[9], wp[1])
                       /\ ReadsAsFloat(fld[10], wp[2])
                       /\ ReadsAsInt(fld[11], wp[3])
                       /\ fld[12] = <<"1">>

\* A completed export of two waypoints or more that differ in lat, lon and alt.
C5_Witness ==
    /\ pc = "done" /\ Len(waypoints) >= 2
    /\ waypoints[1][1] # waypoints[1][2]
    /\ \A c \in 1..3 : waypoints[1][c] # waypoints[2][c]
    /\ waypoints[2][1][1] < 0

(***************************************************************************)
(* C6.  Exporting an empty waypoint list raises no fault and produces a    *)
(* file containing only the header line "QGC WPL 110".                     *)
(***************************************************************************)
C6_EmptyList ==
    waypoints = <<>>
        => /\ pc = "export_to_missionplanner" => ENABLED export_to_missionplanner
           /\ pc = "export_waypoints" => ENABLED export_waypoints
           /\ pc = "done"
                => /\ fault = <<>>
                   /\ Output = <<"Q", "G", "C", " ", "W", "P", "L", " ", "1", "1", "0", "\n">>

C6_Witness ==
    /\ entry = "export_to_missionplanner" /\ pc = "done" /\ waypoints = <<>>
    /\ Len(Lines(Output)) = 1

(***************************************************************************)
(* C7.  haversine_distance(lat, lon, lat, lon) returns 0 for every         *)
(* coordinate (lat, lon), in both scripts' formulations.                   *)
(***************************************************************************)
C7_ZeroOnIdentical ==
    start = end
        => /\ \A key \in DOMAIN hav : hav[key] = Zero
           /\ MainAfterEnter => distance = Zero

C7_Witness ==
    /\ start = end /\ start[1] # Zero /\ start[2] # Zero
    /\ {<<"day3", "ab">>, <<"backup", "ab">>} \subseteq DOMAIN hav

(***************************************************************************)
(* C8.  haversine_distance is symmetric: for all coordinates A and B,      *)
(* haversine_distance(A, B) = haversine_distance(B, A), in each script.    *)
(***************************************************************************)
C8_Symmetric ==
    \A v \in {"day3", "backup"} :
        {<<v, "ab">>, <<v, "ba">>} \subseteq DOMAIN hav
            => hav[<<v, "ab">>] = hav[<<v, "ba">>]

C8_Witness ==
    /\ start[1] # end[1] /\ start[2] # end[2]
    /\ DOMAIN hav = {"day3", "backup"} \X {"ab", "ba"}
    /\ hav[<<"day3", "ab">>] # Zero

(***************************************************************************)
(* C10.  In the pipeline of export_waypoints_day3.py the exporter is       *)
(* invoked at most once and only after the generator has returned the      *)
(* complete list; if the generator faults, the exporter is never invoked   *)
(* and the output file is neither created nor modified: no step before     *)
(* the exporter's changes any file.                                        *)
(***************************************************************************)
CompleteList ==
    /\ Len(waypoints) = IF num_points < 0 THEN 0 ELSE num_points + 1
    /\ i = Len(waypoints)

C10_PipelineState ==
    entry = "main"
        => /\ exportCalls <= 1
           /\ exportCalls = 1 => (pc = "done" /\ fault = <<>> /\ CompleteList)
           /\ pc = "fault" => (exportCalls = 0 /\ fault # <<>> /\ ~ENABLED Next)

C10_PipelineStep ==
    entry = "main"
        => /\ exportCalls' # exportCalls
                => (pc = "export_to_missionplanner" /\ CompleteList /\ fault = <<>>)
           /\ exportCalls' = exportCalls => fs' = fs

C10_Pipeline == [](C10_PipelineState) /\ [][C10_PipelineStep]_vars

C10_Witness ==
    /\ entry = "main" /\ pc = "fault" /\ exportCalls = 0
    /\ fs["mission_day3.waypoints"] = OldFile

=============================================================================
